---- MODULE Spec2Model ----
(***************************************************************************)
(* Model of the AWS-Lab image service: the two lambda_handler entry points *)
(* (main.py, lambda_function.py), the three transforms of                  *)
(* LambdaImageProcessor and process_batch.                                 *)
(*                                                                         *)
(* The imaging library is outside the repository.  An image is modelled by *)
(* what the code reads of it: whether it decodes, its size and its mode.   *)
(* The library's failures that the code can provoke are modelled as the    *)
(* library documents them: Image.open rejects bytes that are no image,     *)
(* Image.new rejects a colour that is no RGB triple, and the JPEG encoder  *)
(* rejects an empty image and a mode with an alpha channel.                *)
(***************************************************************************)
EXTENDS Integers, Sequences, FiniteSets, TLC

VARIABLES pc, entry, event, response, escaped, calls, unclosed, crop, failure,
          images, batchOp, batchKw, idx, results

vars == <<pc, entry, event, response, escaped, calls, unclosed, crop, failure,
          images, batchOp, batchKw, idx, results>>

----------------------------------------------------------------------------
(* Bounds of the model *)

\* Largest image width and height, in pixels.
MaxDim == 2
\* Largest bbox coordinate a request carries through the handler.
MaxCoord == 1
\* Largest number of images in one process_batch call.
MaxBatch == 3

----------------------------------------------------------------------------
(* Values *)

Max(a, b) == IF a >= b THEN a ELSE b
Min(a, b) == IF a <= b THEN a ELSE b

Modes == {"RGB", "RGBA"}

\* Bytes: what Image.open can find in them.
CorruptBytes == [kind |-> "corrupt", fmt |-> "none", w |-> 0, h |-> 0,
                 mode |-> "none", paint |-> "none", args |-> <<>>]
SourceImage(w, h, m) == [kind |-> "image", fmt |-> "PNG", w |-> w, h |-> h,
                         mode |-> m, paint |-> "source", args |-> <<>>]
NoBytes == [kind |-> "none", fmt |-> "none", w |-> 0, h |-> 0,
            mode |-> "none", paint |-> "none", args |-> <<>>]

Dims == 1..MaxDim
SourceImages == {SourceImage(w, h, m) : w \in Dims, h \in Dims, m \in Modes}
InputBytes == {CorruptBytes} \cup SourceImages

\* A JSON value of the 'image' member: absent, "", a string that is no
\* base64, or the base64 text of some bytes.
ImgAbsent == [tag |-> "absent", data |-> NoBytes]
ImgEmpty == [tag |-> "empty", data |-> NoBytes]
ImgBadB64 == [tag |-> "badb64", data |-> NoBytes]
B64Encode(bytes) == [tag |-> "b64", data |-> bytes]
ImageFields == {ImgAbsent, ImgEmpty, ImgBadB64} \cup {B64Encode(b) : b \in InputBytes}

\* Colours as JSON gives them: absent, a list of three channels, a list of
\* the wrong length, or a value that is no list at all.
ColAbsent == [tag |-> "absent", v |-> <<>>]
ColNonIter == [tag |-> "noniter", v |-> <<>>]
ColList(v) == [tag |-> "list", v |-> v]
Red == <<255, 0, 0>>
Black == <<0, 0, 0>>
White == <<255, 255, 255>>
Teal == <<0, 128, 128>>
ColorFields == {ColAbsent, ColNonIter, ColList(Teal), ColList(<<255, 0>>)}
DuoFields == {ColAbsent, ColList(Teal), ColList(<<255, 0>>)}

\* Exception messages: str(e).  A transform's message is its label followed
\* by the cause; any other exception has no label.
NoMsg == [label |-> "none", cause |-> "none"]
Msg(label, cause) == [label |-> label, cause |-> cause]

\* Python's floor division by two, also of a negative number.
FloorHalf(n) == IF n >= 0 THEN n \div 2 ELSE -((1 - n) \div 2)

----------------------------------------------------------------------------
(* The transforms of LambdaImageProcessor (main.py) *)

\* What a transform's body does: it returns bytes, or an exception of the
\* imaging library leaves it.  unclosed: the images the call opened and did
\* not close; crop: the rectangle handed to img.crop.
Raised(cause, open) ==
    [raised |-> TRUE, value |-> NoBytes, exc |-> Msg("none", cause),
     cause |-> cause, unclosed |-> open, crop |-> <<>>]

Returned(bytes, open, box) ==
    [raised |-> FALSE, value |-> bytes, exc |-> NoMsg,
     cause |-> "none", unclosed |-> open, crop |-> box]

\* The except clause of a transform:
\*   except Exception as e: raise RuntimeError(f"<label>: {str(e)}")
TransformBoundaryNoCause(label, r) ==
    IF r.raised THEN [r EXCEPT !.exc = Msg(label, "none")] ELSE r
TransformBoundary(label, r) ==
    IF r.raised THEN [r EXCEPT !.exc = Msg(label, r.cause)] ELSE r

\* Image.open
CanOpen(image_data) == image_data.kind = "image"

\* Image.new('RGB', size, color) takes a triple.
ColorOk(color) == Len(color) = 3

\* result_img.save(output_buffer, format='JPEG', quality=85, optimize=True)
SaveError(w, h, mode) ==
    IF w <= 0 \/ h <= 0 THEN "cannot write empty image as JPEG"
    ELSE IF mode # "RGB" THEN "cannot write mode as JPEG"
    ELSE "none"

Encoded(w, h, paint, args) ==
    [kind |-> "image", fmt |-> "JPEG", w |-> w, h |-> h, mode |-> "RGB",
     paint |-> paint, args |-> args]

\* The images convert_to_color_scale has opened when Image.new is given the
\* colour, all those it opens, and those it closes.
ColorScaleOpenedFirst == {"img", "gray_img", "rgb_img"}
ColorScaleOpened == ColorScaleOpenedFirst \cup
                    {"color_layer", "black_layer", "blend", "composite"}
ColorScaleClosed == {"img", "gray_img", "rgb_img", "composite"}

ColorScaleBody(image_data, color) ==
    IF ~CanOpen(image_data)
    THEN Raised("cannot identify image file", {})
    ELSE IF ~ColorOk(color)
    THEN Raised("color must be a triple", ColorScaleOpenedFirst)
    ELSE Returned(Encoded(image_data.w, image_data.h, "color_scale", color),
                  ColorScaleOpened \ ColorScaleClosed, <<>>)

convert_to_color_scale(image_data, color) ==
    TransformBoundary("Color scale conversion failed",
                      ColorScaleBody(image_data, color))

\* Duotone.process(img, color1, color2): the duotone mapping, which keeps the
\* size of the image and yields an RGB image.
DuotoneProcess(img, color1, color2) ==
    IF ColorOk(color1) /\ ColorOk(color2)
    THEN [raised |-> FALSE, w |-> img.w, h |-> img.h]
    ELSE [raised |-> TRUE, w |-> 0, h |-> 0]

\* The save of the duotone image and the clean up.
DuotoneEncode(d, color1, color2) ==
    IF d.raised
    THEN Raised("color must be a triple", {"img"})
    ELSE Returned(Encoded(d.w, d.h, "duotone", color1 \o color2),
                  {"img", "result_img"} \ {"img", "result_img"}, <<>>)

DuotoneBody(image_data, color1, color2) ==
    IF ~CanOpen(image_data)
    THEN Raised("cannot identify image file", {})
    ELSE DuotoneEncode(DuotoneProcess(image_data, color1, color2),
                       color1, color2)

convert_to_duotone(image_data, color1, color2) ==
    TransformBoundary("Duotone conversion failed",
                      DuotoneBody(image_data, color1, color2))

\* clip_image, explicit bbox: the rectangle handed to img.crop.
BboxCropUnordered(width, height, bbox) ==
    LET left == Max(0, Min(bbox[1], width))
        top == Max(0, Min(bbox[2], height))
        right == Min(bbox[3], width)
        bottom == Min(bbox[4], height)
    IN <<left, top, right, bottom>>
BboxCrop(width, height, bbox) ==
    LET left == Max(0, Min(bbox[1], width))
        top == Max(0, Min(bbox[2], height))
        right == Max(left, Min(bbox[3], width))
        bottom == Max(top, Min(bbox[4], height))
    IN <<left, top, right, bottom>>

\* clip_image, centre crop.  int(target_width * scale), with
\* scale = min(width / target_width, height / target_height), is computed in
\* integers: the floor of the exact product.
CenterCrop(width, height, target_size) ==
    LET target_width == target_size[1]
        target_height == target_size[2]
        left == FloorHalf(width - target_width)
        top == FloorHalf(height - target_height)
        right == left + target_width
        bottom == top + target_height
    IN IF right > width \/ bottom > height
       THEN LET byWidth == width * target_height <= height * target_width
                new_width == IF byWidth THEN width
                             ELSE (target_width * height) \div target_height
                new_height == IF byWidth
                              THEN (target_height * width) \div target_width
                              ELSE height
                left2 == FloorHalf(width - new_width)
                top2 == FloorHalf(height - new_height)
            IN <<left2, top2, left2 + new_width, top2 + new_height>>
       ELSE <<left, top, right, bottom>>

\* clip_image, default: a margin of int(width * 0.1), int(height * 0.1).
MarginCrop(width, height) ==
    LET margin_x == width \div 10
        margin_y == height \div 10
    IN <<margin_x, margin_y, width - margin_x, height - margin_y>>

\* result_img = img.crop(box), the save and the clean up.
ClipEncode(image_data, box, err) ==
    IF err # "none"
    THEN [Raised(err, {"img", "result_img"}) EXCEPT !.crop = box]
    ELSE Returned(Encoded(box[3] - box[1], box[4] - box[2], "clip", box),
                  {"img", "result_img"} \ {"img", "result_img"}, box)

ClipCrop(image_data, box) ==
    ClipEncode(image_data, box,
               SaveError(box[3] - box[1], box[4] - box[2], image_data.mode))

\* bbox and target_size are <<>> when None (or empty: both are falsy).
ClipBody(image_data, bbox, center_crop, target_size) ==
    IF ~CanOpen(image_data)
    THEN Raised("cannot identify image file", {})
    ELSE ClipCrop(image_data,
                  IF bbox # <<>>
                  THEN BboxCrop(image_data.w, image_data.h, bbox)
                  ELSE IF center_crop /\ target_size # <<>>
                  THEN CenterCrop(image_data.w, image_data.h, target_size)
                  ELSE MarginCrop(image_data.w, image_data.h))

clip_image(image_data, bbox, center_crop, target_size) ==
    TransformBoundary("Image clipping failed",
                      ClipBody(image_data, bbox, center_crop, target_size))

----------------------------------------------------------------------------
(* Requests, JSON and events *)

FieldNames == <<"image", "operation", "color", "color1", "color2",
                "bbox", "center_crop", "target_size">>

\* A request object; a member that is absent holds the value below.
EmptyRequest ==
    [image |-> ImgAbsent, operation |-> "None", color |-> ColAbsent,
     color1 |-> ColAbsent, color2 |-> ColAbsent, bbox |-> <<>>,
     center_crop |-> "absent", target_size |-> <<>>]

\* json.dumps of a request object: its members, in order.
JsonDumps(R) ==
    LET present == SelectSeq(FieldNames, LAMBDA f : R[f] # EmptyRequest[f])
    IN [ok |-> TRUE,
        members |-> [i \in 1..Len(present) |-> <<present[i], R[present[i]]>>]]

MalformedJson == [ok |-> FALSE, members |-> <<>>]
NoJson == [ok |-> FALSE, members |-> << <<"none", "none">> >>]

\* json.loads: the object with the members of the text; it raises on a text
\* that is no JSON.
JsonLoads(text) ==
    IF ~text.ok
    THEN [raised |-> TRUE, value |-> EmptyRequest]
    ELSE [raised |-> FALSE,
          value |-> [f \in DOMAIN EmptyRequest |->
                       IF \E i \in 1..Len(text.members) : text.members[i][1] = f
                       THEN text.members[
                              CHOOSE i \in 1..Len(text.members) :
                                 text.members[i][1] = f][2]
                       ELSE EmptyRequest[f]]]

\* An event: its 'body' member (absent, a string, or an object) and the
\* request members it holds itself, at its top level.
NoBody == [kind |-> "absent", text |-> NoJson, obj |-> EmptyRequest]
StrBody(text) == [kind |-> "str", text |-> text, obj |-> EmptyRequest]
ObjBody(R) == [kind |-> "obj", text |-> NoJson, obj |-> R]

DirectEvent(R) == [body |-> NoBody, top |-> R]
StringEvent(R) == [body |-> StrBody(JsonDumps(R)), top |-> EmptyRequest]
ObjectEvent(R) == [body |-> ObjBody(R), top |-> EmptyRequest]
MalformedEvent == [body |-> StrBody(MalformedJson), top |-> EmptyRequest]
NoEvent == [body |-> NoBody, top |-> EmptyRequest]

----------------------------------------------------------------------------
(* lambda_handler *)

NoResponse == [statusCode |-> 0, image |-> ImgAbsent, error |-> NoMsg,
               operation |-> "None", cors |-> FALSE]

ErrorResponse(status, msg) ==
    [statusCode |-> status, image |-> ImgAbsent, error |-> msg,
     operation |-> "None", cors |-> FALSE]

\* What one invocation leaves: the response, whether an exception left the
\* handler, and what the transform it called did.
Outcome(resp, esc, n, r) ==
    [response |-> resp, escaped |-> esc, calls |-> n,
     unclosed |-> r.unclosed, crop |-> r.crop,
     failure |-> IF r.raised THEN r.cause ELSE "none"]

NoCall == Returned(NoBytes, {}, <<>>)

\* body = json.loads(event['body']) if isinstance(event.get('body'), str) else event
ParseBodyFromBody(ev) ==
    IF ev.body.kind = "str" THEN JsonLoads(ev.body.text)
    ELSE IF ev.body.kind = "obj" THEN [raised |-> FALSE, value |-> ev.body.obj]
    ELSE [raised |-> TRUE, value |-> EmptyRequest]
ParseBody(ev) ==
    IF ev.body.kind = "str" THEN JsonLoads(ev.body.text)
    ELSE [raised |-> FALSE, value |-> ev.top]

\* if not image_b64
NoImageOnlyNone(image_b64) == image_b64.tag = "absent"
NoImage(image_b64) == image_b64.tag \in {"absent", "empty"}

\* except Exception as e: return {'statusCode': 500, ...{'error': str(e)}}
HandlerExceptMissing(msg, n, r) == Outcome(NoResponse, TRUE, n, r)
HandlerExcept(msg, n, r) == Outcome(ErrorResponse(500, msg), FALSE, n, r)

\* processor = LambdaImageProcessor(): main.py defines the class,
\* lambda_function.py neither defines nor imports it.
ProcessorDefined(ent) == ent = "main"

\* tuple(body.get(name, default))
ColorArg(field, default) == IF field.tag = "absent" THEN default ELSE field.v

\* The transform call of an operation; a colour that is no list makes
\* tuple() raise before the transform is called.
Dispatch(body, operation, image_data) ==
    IF operation = "color_scale"
    THEN IF body.color.tag = "noniter"
         THEN [called |-> FALSE, r |-> Raised("object is not iterable", {})]
         ELSE [called |-> TRUE,
               r |-> convert_to_color_scale(image_data, ColorArg(body.color, Red))]
    ELSE IF operation = "duotone"
    THEN IF body.color1.tag = "noniter" \/ body.color2.tag = "noniter"
         THEN [called |-> FALSE, r |-> Raised("object is not iterable", {})]
         ELSE [called |-> TRUE,
               r |-> convert_to_duotone(image_data, ColorArg(body.color1, Black),
                                        ColorArg(body.color2, White))]
    ELSE [called |-> TRUE,
          r |-> clip_image(image_data, body.bbox, body.center_crop = "true",
                           body.target_size)]

SupportedOperations == {"color_scale", "duotone", "clip"}

\* The end of the try block: the 200 response, or the handler's except
\* clause when the dispatch raised.
Respond(operation, d) ==
    IF d.r.raised
    THEN HandlerExcept(d.r.exc, IF d.called THEN 1 ELSE 0, d.r)
    ELSE Outcome([statusCode |-> 200, image |-> B64Encode(d.r.value),
                  error |-> NoMsg, operation |-> operation, cors |-> TRUE],
                 FALSE, IF d.called THEN 1 ELSE 0, d.r)

\* The try block from 'image_b64 = body.get("image")' on.
HandleBody(ent, body, operation) ==
    IF NoImage(body.image)
    THEN Outcome(ErrorResponse(400, Msg("none", "No image data provided")),
                 FALSE, 0, NoCall)
    ELSE IF body.image.tag = "badb64"
    THEN HandlerExcept(Msg("none", "Incorrect padding"), 0, NoCall)
    ELSE IF ~ProcessorDefined(ent)
    THEN HandlerExcept(Msg("none", "name 'LambdaImageProcessor' is not defined"),
                       0, NoCall)
    ELSE IF operation \notin SupportedOperations
    THEN Outcome(ErrorResponse(400, Msg("none", "Invalid operation")),
                 FALSE, 0, NoCall)
    ELSE Respond(operation, Dispatch(body, operation, body.image.data))

\* body.get('operation', 'color_scale')
OperationOf(body) ==
    IF body.operation = "None" THEN "color_scale" ELSE body.operation

HandleParsed(ent, parsed) ==
    IF parsed.raised
    THEN HandlerExcept(Msg("none", "Expecting value"), 0, NoCall)
    ELSE HandleBody(ent, parsed.value, OperationOf(parsed.value))

lambda_handler(ent, ev) == HandleParsed(ent, ParseBody(ev))

----------------------------------------------------------------------------
(* process_batch *)

\* **kwargs: the names given, and the value of every parameter (its default
\* when it is not given).
Kwargs(keys, color, bbox, center_crop, target_size) ==
    [keys |-> keys, color |-> color, color1 |-> Black, color2 |-> White,
     bbox |-> bbox, center_crop |-> center_crop, target_size |-> target_size]

NoKwargs == Kwargs({}, Red, <<>>, FALSE, <<>>)

CommonParams == {"output_format", "quality"}
ColorScaleParams == {"color", "blend"} \cup CommonParams
DuotoneParams == {"color1", "color2"} \cup CommonParams
ClipParams == {"bbox", "center_crop", "target_size"} \cup CommonParams

\* The body of the try block for one image: the call of the transform with
\* **kwargs (a name the transform does not take is a TypeError), or the
\* ValueError of an unknown operation.
ProcessItem(image_data, operation, kw) ==
    IF operation = "color_scale"
    THEN IF kw.keys \subseteq ColorScaleParams
         THEN convert_to_color_scale(image_data, kw.color)
         ELSE Raised("unexpected keyword argument", {})
    ELSE IF operation = "duotone"
    THEN IF kw.keys \subseteq DuotoneParams
         THEN convert_to_duotone(image_data, kw.color1, kw.color2)
         ELSE Raised("unexpected keyword argument", {})
    ELSE IF operation = "clip"
    THEN IF kw.keys \subseteq ClipParams
         THEN clip_image(image_data, kw.bbox, kw.center_crop, kw.target_size)
         ELSE Raised("unexpected keyword argument", {})
    ELSE Raised("Unknown operation", {})

\* None
NoneResult == NoBytes

\* results.append(result), or results.append(None) in the except clause.
BatchAppendSkipFailed(res, r) ==
    IF r.raised THEN res ELSE Append(res, r.value)
BatchAppend(res, r) ==
    IF r.raised THEN Append(res, NoneResult) ELSE Append(res, r.value)

----------------------------------------------------------------------------
(* Inputs *)

Entries == {"main", "lambda_function"}

Req(img, op, c, c1, c2, bbox, cc, ts) ==
    [image |-> img, operation |-> op, color |-> c, color1 |-> c1,
     color2 |-> c2, bbox |-> bbox, center_crop |-> cc, target_size |-> ts]

Coords == 0..MaxCoord
HandlerBoxes == {<<>>} \cup
    {<<l, t, r, b>> : l \in Coords, t \in Coords, r \in Coords, b \in Coords}
HandlerTargets == {<<>>} \cup {<<tw, th>> : tw \in Dims, th \in Dims}

\* The shapes of an event that carries the request object R.
EventShapes == {"direct", "string", "object"}
EventOf(shape, R) ==
    IF shape = "direct" THEN DirectEvent(R)
    ELSE IF shape = "string" THEN StringEvent(R)
    ELSE ObjectEvent(R)

\* Direct calls of clip_image: every box around a small image, and the boxes
\* and target sizes of the documented examples on a 100 x 100 image.
WideCoords == (-1)..(MaxDim + 1)
WideTargets == 1..(MaxDim + 2)
ExampleImage == SourceImage(100, 100, "RGB")
ExampleCoords == {-5, 10, 50, 200}
ExampleTargets == {50, 100, 101, 150}

\* process_batch: lists of at most MaxBatch images.
BatchItems == {CorruptBytes} \cup {SourceImage(1, 1, m) : m \in Modes}
BatchLists == UNION {[1..n -> BatchItems] : n \in 0..MaxBatch}
BatchOperations == SupportedOperations \cup {"rotate"}
BatchKwargs == {NoKwargs,
                Kwargs({"color"}, Teal, <<>>, FALSE, <<>>),
                Kwargs({"bbox"}, Red, <<0, 0, 1, 1>>, FALSE, <<>>),
                Kwargs({"bbox"}, Red, <<1, 1, 0, 0>>, FALSE, <<>>)}

----------------------------------------------------------------------------
(* The state machine *)

Init ==
    /\ pc = "idle"
    /\ entry = "none"
    /\ event = NoEvent
    /\ response = NoResponse
    /\ escaped = FALSE
    /\ calls = 0
    /\ unclosed = {}
    /\ crop = <<>>
    /\ failure = "none"
    /\ images = <<>>
    /\ batchOp = "None"
    /\ batchKw = NoKwargs
    /\ idx = 0
    /\ results = <<>>

\* One invocation of lambda_handler(event, context).
Invoked(ent, ev, o) ==
    /\ pc = "idle"
    /\ entry' = ent
    /\ event' = ev
    /\ response' = o.response
    /\ escaped' = o.escaped
    /\ calls' = o.calls
    /\ unclosed' = o.unclosed
    /\ crop' = o.crop
    /\ failure' = o.failure
    /\ pc' = "done"
    /\ UNCHANGED <<images, batchOp, batchKw, idx, results>>

InvokeWith(ent, ev) == Invoked(ent, ev, lambda_handler(ent, ev))

\* The members a request of each operation carries.
Families == {"color_scale", "duotone", "clip", "other"}
OpsOf(fam) == IF fam = "color_scale" THEN {"None", "color_scale"}
              ELSE IF fam = "other" THEN {"rotate", "Clip"} ELSE {fam}
ColorsOf(fam) == IF fam = "color_scale" THEN ColorFields ELSE {ColAbsent}
DuoOf(fam) == IF fam = "duotone" THEN DuoFields ELSE {ColAbsent}
BoxesOf(fam) == IF fam = "clip" THEN HandlerBoxes ELSE {<<>>}
CenterOf(fam) == IF fam = "clip" THEN {"absent", "true", "false"} ELSE {"absent"}
TargetsOf(fam) == IF fam = "clip" THEN HandlerTargets ELSE {<<>>}

Invoke ==
    /\ pc = "idle"
    /\ \E ent \in Entries, shape \in EventShapes \cup {"malformed"},
          fam \in Families, img \in ImageFields :
       \E op \in OpsOf(fam), c \in ColorsOf(fam), c1 \in DuoOf(fam),
          c2 \in DuoOf(fam), bbox \in BoxesOf(fam), cc \in CenterOf(fam),
          ts \in TargetsOf(fam) :
          InvokeWith(ent, IF shape = "malformed" THEN MalformedEvent
                          ELSE EventOf(shape, Req(img, op, c, c1, c2, bbox, cc, ts)))

\* One direct call of LambdaImageProcessor.clip_image.
ClipCalled(image_data, kw, r) ==
    /\ pc = "idle"
    /\ images' = <<image_data>>
    /\ batchKw' = kw
    /\ results' = BatchAppend(<<>>, r)
    /\ unclosed' = r.unclosed
    /\ crop' = r.crop
    /\ failure' = IF r.raised THEN r.cause ELSE "none"
    /\ batchOp' = "clip"
    /\ calls' = 1
    /\ pc' = "clipped"
    /\ UNCHANGED <<entry, event, response, escaped, idx>>

ClipCallWith(image_data, kw) ==
    ClipCalled(image_data, kw,
               clip_image(image_data, kw.bbox, kw.center_crop, kw.target_size))

\* The ways clip_image is called: with a bbox, with a target size, with
\* neither; on the small images and on the example image.
ClipModes == {"bbox", "center", "default"}
ClipImagesOf(example) ==
    IF example THEN {ExampleImage} ELSE SourceImages
ClipCoordsOf(mode, example) ==
    IF mode # "bbox" THEN {0}
    ELSE IF example THEN ExampleCoords ELSE WideCoords
ClipTargetsOf(mode, example) ==
    IF mode # "center" THEN {1}
    ELSE IF example THEN ExampleTargets ELSE WideTargets
ClipKwargs(mode, l, t, r, b, cc, tw, th) ==
    IF mode = "bbox" THEN Kwargs({"bbox"}, Red, <<l, t, r, b>>, FALSE, <<>>)
    ELSE IF mode = "center"
    THEN Kwargs({"center_crop", "target_size"}, Red, <<>>, cc, <<tw, th>>)
    ELSE NoKwargs

ClipCall ==
    /\ pc = "idle"
    /\ \E mode \in ClipModes, example \in BOOLEAN :
       \E img \in ClipImagesOf(example) \cup
                  (IF mode = "default" THEN {CorruptBytes} ELSE {}),
          l \in ClipCoordsOf(mode, example), t \in ClipCoordsOf(mode, example),
          r \in ClipCoordsOf(mode, example), b \in ClipCoordsOf(mode, example),
          cc \in (IF mode = "center" THEN BOOLEAN ELSE {FALSE}),
          tw \in ClipTargetsOf(mode, example), th \in ClipTargetsOf(mode, example) :
          ClipCallWith(img, ClipKwargs(mode, l, t, r, b, cc, tw, th))

\* process_batch(images_data, operation, **kwargs): the call, ...
BatchStart ==
    /\ pc = "idle"
    /\ \E l \in BatchLists, op \in BatchOperations, kw \in BatchKwargs :
         /\ images' = l
         /\ batchOp' = op
         /\ batchKw' = kw
    /\ idx' = 1
    /\ results' = <<>>
    /\ pc' = "batch"
    /\ UNCHANGED <<entry, event, response, escaped, calls, unclosed, crop, failure>>

\* ... one turn of its loop, ...
BatchTurn(r) ==
    /\ results' = BatchAppend(results, r)
    /\ unclosed' = r.unclosed
    /\ crop' = r.crop
    /\ failure' = IF r.raised THEN r.cause ELSE "none"
    /\ idx' = idx + 1
    /\ calls' = calls + 1
    /\ UNCHANGED <<pc, entry, event, response, escaped, images, batchOp, batchKw>>

BatchStep ==
    /\ pc = "batch"
    /\ idx <= Len(images)
    /\ BatchTurn(ProcessItem(images[idx], batchOp, batchKw))

\* ... and its return.
BatchReturn ==
    /\ pc = "batch"
    /\ idx > Len(images)
    /\ pc' = "batchdone"
    /\ UNCHANGED <<entry, event, response, escaped, calls, unclosed, crop, failure,
                   images, batchOp, batchKw, idx, results>>

\* Nothing outlives a call: the next one starts from the initial state.
Finish ==
    /\ pc \in {"done", "clipped", "batchdone"}
    /\ pc' = "idle"
    /\ entry' = "none"
    /\ event' = NoEvent
    /\ response' = NoResponse
    /\ escaped' = FALSE
    /\ calls' = 0
    /\ unclosed' = {}
    /\ crop' = <<>>
    /\ failure' = "none"
    /\ images' = <<>>
    /\ batchOp' = "None"
    /\ batchKw' = NoKwargs
    /\ idx' = 0
    /\ results' = <<>>

Next == Invoke \/ ClipCall \/ BatchStart \/ BatchStep \/ BatchReturn \/ Finish

Spec == Init /\ [][Next]_vars

----------------------------------------------------------------------------
(* What the claims speak of *)

\* The event is a request object itself, or holds one as a JSON string.
CarriesRequest == event.body.kind = "absent" \/
                  (event.body.kind = "str" /\ event.body.text.ok)

\* That request object.
Carried == IF event.body.kind = "str" THEN JsonLoads(event.body.text).value
           ELSE event.top

\* The operation the request names, 'color_scale' when it names none.
CarriedOperation ==
    IF Carried.operation = "None" THEN "color_scale" ELSE Carried.operation

AcceptedColor(c) == c.tag = "absent" \/ (c.tag = "list" /\ Len(c.v) = 3)
AcceptedParameters(R) ==
    AcceptedColor(R.color) /\ AcceptedColor(R.color1) /\ AcceptedColor(R.color2)

HasImage == response.image # ImgAbsent
HasError == response.error # NoMsg

LabelOf(operation) ==
    IF operation = "color_scale" THEN "Color scale conversion failed"
    ELSE IF operation = "duotone" THEN "Duotone conversion failed"
    ELSE "Image clipping failed"

\* A rectangle that lies inside a width x height image.
Inside(box, width, height) ==
    /\ 0 <= box[1] /\ box[1] <= box[3] /\ box[3] <= width
    /\ 0 <= box[2] /\ box[2] <= box[4] /\ box[4] <= height

----------------------------------------------------------------------------
(* The claims *)

\* C1: an event with a valid base64 image, an operation among color_scale,
\* duotone and clip and accepted parameters gets status 200, a body with the
\* base64 result image and the operation echoed, at both entry points.
C1_Original ==
    (/\ pc = "done"
     /\ CarriesRequest
     /\ Carried.image.tag = "b64"
     /\ Carried.image.data.kind = "image"
     /\ Carried.operation \in SupportedOperations
     /\ AcceptedParameters(Carried))
    => (/\ response.statusCode = 200
        /\ response.image.tag = "b64"
        /\ response.image.data.kind = "image"
        /\ response.operation = Carried.operation)

\* C2: every invocation returns a response and lets no exception escape; the
\* status is 200, 400 or 500; the body has exactly one of 'image' and
\* 'error', and 'image' exactly when the status is 200.
C2_OneResultOrOneError ==
    pc = "done" =>
        /\ ~escaped
        /\ response.statusCode \in {200, 400, 500}
        /\ HasImage # HasError
        /\ HasImage <=> response.statusCode = 200

C2_Witness ==
    /\ pc = "done"
    /\ calls = 1
    /\ failure # "none"
    /\ response.statusCode = 500
    /\ HasError

\* C3: a request whose operation is none of 'color_scale', 'duotone', 'clip'
\* and whose image member is not empty gets status 400 with an error message,
\* whatever the image member holds, at both entry points.
C3_Original ==
    (/\ pc = "done"
     /\ CarriesRequest
     /\ Carried.operation \notin SupportedOperations \cup {"None"}
     /\ Carried.image.tag \notin {"absent", "empty"})
    => (response.statusCode = 400 /\ HasError)

\* C4: a request whose image member is absent or empty gets status 400 with
\* a non-empty error message and no 'image' in the body, whatever its
\* operation and parameters, and no transform is called.
C4_MissingImage ==
    (/\ pc = "done"
     /\ CarriesRequest
     /\ Carried.image.tag \in {"absent", "empty"})
    => (/\ response.statusCode = 400
        /\ HasError
        /\ response.error.cause \notin {"none", ""}
        /\ ~HasImage
        /\ calls = 0
        /\ ~escaped)

C4_Witness ==
    /\ pc = "done"
    /\ CarriesRequest
    /\ Carried.image = ImgEmpty
    /\ Carried.operation = "clip"
    /\ Carried.bbox # <<>>
    /\ response.statusCode = 400

\* C5, as claimed: an event whose 'body' is the request object R gets the
\* response of the event whose 'body' is the JSON string of R.
C5_Original ==
    (pc = "done" /\ event.body.kind = "obj")
    => response = lambda_handler(entry, StringEvent(event.body.obj)).response

\* C5, amended: the request is read from the 'body' when that is a JSON
\* string and from the event itself otherwise.  An event that is the request
\* object R gets the response of the event whose 'body' is the JSON string of
\* R, and an event whose 'body' is an object is read at its own top level.
C5_DirectOrString ==
    /\ (pc = "done" /\ event.body.kind = "absent")
       => response = lambda_handler(entry, StringEvent(event.top)).response
    /\ (pc = "done" /\ event.body.kind = "str" /\ event.body.text.ok)
       => response = lambda_handler(entry, DirectEvent(Carried)).response
    /\ (pc = "done" /\ event.body.kind = "obj")
       => response = lambda_handler(entry, DirectEvent(event.top)).response

C5_Witness ==
    /\ pc = "done"
    /\ entry = "main"
    /\ event.body.kind = "absent"
    /\ event.top.operation = "duotone"
    /\ event.top.color2 # ColAbsent
    /\ response.statusCode = 200

\* C6: with an explicit bbox, the rectangle handed to crop is
\* (left', top', right', bottom') with left' = clamp(left, 0, width),
\* top' = clamp(top, 0, height), right' = max(left', min(right, width)),
\* bottom' = max(top', min(bottom, height)), and lies inside the image; on
\* 100 x 100, (10,10,50,50) gives 40 x 40 and (-5,-5,200,200) gives
\* (0,0,100,100).
C6_BboxClamped ==
    /\ (/\ pc = "done" /\ calls = 1 /\ CarriesRequest
        /\ CarriedOperation = "clip" /\ Carried.bbox # <<>>
        /\ Carried.image.data.kind = "image")
       => (/\ crop = BboxCrop(Carried.image.data.w, Carried.image.data.h,
                             Carried.bbox)
           /\ Inside(crop, Carried.image.data.w, Carried.image.data.h))
    /\ (pc = "clipped" /\ batchKw.bbox # <<>>)
       => LET width == images[1].w
              height == images[1].h
              l == Max(0, Min(batchKw.bbox[1], width))
              t == Max(0, Min(batchKw.bbox[2], height))
          IN /\ crop = <<l, t, Max(l, Min(batchKw.bbox[3], width)),
                         Max(t, Min(batchKw.bbox[4], height))>>
             /\ Inside(crop, width, height)
             /\ (images[1] = ExampleImage /\ batchKw.bbox = <<10, 10, 50, 50>>)
                => (results[1].w = 40 /\ results[1].h = 40)
             /\ (images[1] = ExampleImage /\ batchKw.bbox = <<-5, -5, 200, 200>>)
                => crop = <<0, 0, 100, 100>>

C6_Witness ==
    /\ pc = "clipped"
    /\ images[1] = ExampleImage
    /\ batchKw.bbox = <<200, 50, -5, 10>>
    /\ crop = <<100, 50, 100, 50>>

\* C7: in centre-crop mode, for a positive target size that exceeds the
\* image in width or in height, the crop rectangle lies inside the image and
\* the result is no larger than the source in either dimension.
C7_Original ==
    (/\ pc = "clipped"
     /\ batchKw.bbox = <<>>
     /\ batchKw.center_crop
     /\ batchKw.target_size # <<>>
     /\ (batchKw.target_size[1] > images[1].w \/ batchKw.target_size[2] > images[1].h))
    => (/\ Inside(crop, images[1].w, images[1].h)
        /\ crop[3] - crop[1] <= images[1].w
        /\ crop[4] - crop[2] <= images[1].h)

\* C8: a failure inside a transform reaches the handler as one error whose
\* message is the operation's label followed by the cause; the handler
\* answers 500 with that message, and calls the transform at most once.
C8_ProcessingError ==
    /\ pc = "done" => calls <= 1
    /\ (pc = "done" /\ calls = 1 /\ failure # "none")
       => (/\ response.statusCode = 500
           /\ response.error = Msg(LabelOf(CarriedOperation), failure)
           /\ ~HasImage
           /\ ~escaped)

C8_Witness ==
    /\ pc = "done"
    /\ calls = 1
    /\ CarriedOperation = "clip"
    /\ failure = "cannot write empty image as JPEG"
    /\ response.statusCode = 500

\* C9: process_batch returns one entry per image, in order: None exactly
\* where processing that image failed and that image's result elsewhere; a
\* failure neither ends the loop nor changes another image's entry.
C9_BatchIsolation ==
    pc \in {"batch", "batchdone"} =>
        /\ Len(results) = idx - 1
        /\ pc = "batchdone" => Len(results) = Len(images)
        /\ \A i \in 1..Len(results) :
              /\ results[i] = NoneResult
                 <=> ProcessItem(images[i], batchOp, batchKw).raised
              /\ results[i] # NoneResult
                 => results[i] = ProcessItem(images[i], batchOp, batchKw).value

C9_Witness ==
    /\ pc = "batchdone"
    /\ Len(images) = 3
    /\ results[1] = NoneResult
    /\ results[2] # NoneResult
    /\ results[3] = NoneResult

\* C10: when a transform returns, normally or by its processing error, no
\* image it opened remains unclosed.
C10_Original ==
    (pc \in {"done", "clipped", "batch", "batchdone"} /\ calls > 0)
    => unclosed = {}

====
